---- MODULE Spec2Model ----
(***************************************************************************)
(* Folder encrypt / decrypt batches of FeatureFolderEncrypt.ts.            *)
(*                                                                         *)
(* Text (file content, paths) is a sequence of string tokens.  A batch is  *)
(* an async function: every await of the source is a separate step of the  *)
(* batch, and the code between two awaits is one atomic step.              *)
(***************************************************************************)
EXTENDS Integers, Sequences, FiniteSets

\* ---------------------------------------------------------------- bounds
MaxInvocations == 2   \* menu commands invoked in one behaviour
MaxFaults == 2        \* storage / crypto / view faults injected in one behaviour

\* ------------------------------------------------------------- the vault
\* The TFile objects of the vault, in the order vault.getFiles() lists them.
Files == {1, 2, 3}

\* Parent folder path of each file: a/x, a/s/y, ab/z.
DirOf(f) ==
  CASE f = 1 -> <<"a">>
    [] f = 2 -> <<"a", "/", "s">>
    [] f = 3 -> <<"a", "b">>

BaseOf(f) ==
  CASE f = 1 -> "x"
    [] f = 2 -> "y"
    [] f = 3 -> "z"

\* The folders the menu is opened on: the vault root (empty path) and "a".
Folders == {<< >>, <<"a">>}

\* services/Constants.ts
ENCRYPTED_FILE_EXTENSION_DEFAULT == "mdenc"
ENCRYPTED_FILE_EXTENSIONS == {"mdenc", "encrypted"}

\* ----------------------------------------------------------- passwords
Blank == [password |-> "", hint |-> ""]
PwA == [password |-> "pw", hint |-> "h"]
PwB == [password |-> "px", hint |-> ""]
\* What the user can type into the password prompt.
PromptAnswers == {PwA, PwB}

LevelExternalFile == "externalFile"
Levels == {"vault", LevelExternalFile}

\* ------------------------------------------------------- pure functions
StartsWith(s, prefix) ==
  /\ Len(prefix) <= Len(s)
  /\ SubSeq(s, 1, Len(prefix)) = prefix

\* TFile.path: parent path, "/", basename, ".", extension.
PathOf(f, e) ==
  (IF DirOf(f) = << >> THEN << >> ELSE DirOf(f) \o <<"/">>) \o <<BaseOf(f), ".", e>>

\* Utils.getFilePathWithNewExtension: same parent and basename, new extension.
getFilePathWithNewExtension(f, newExtension) ==
  (IF DirOf(f) = << >> THEN << >> ELSE DirOf(f) \o <<"/">>)
    \o <<BaseOf(f), ".", newExtension>>

\* The extension of a path: its last token.
ExtensionOfPath(p) == p[Len(p)]

\* FileDataHelper.encrypt: the envelope carries the hint and a ciphertext that
\* only the same password opens (the ciphertext is the plaintext under the key).
Encrypt(password, hint, text) ==
  [hint |-> hint, ciphertext |-> <<password>> \o text]

\* FileDataHelper.decrypt: the plaintext, or null for a wrong password.
Decrypt(env, password) ==
  IF Len(env.ciphertext) > 0 /\ Head(env.ciphertext) = password
    THEN [isNull |-> FALSE, text |-> Tail(env.ciphertext)]
    ELSE [isNull |-> TRUE, text |-> << >>]

\* JsonFileEncoding.encode: the on-disk text of an envelope.
Encode(env) == <<"{", env.hint>> \o env.ciphertext \o <<"}">>

\* JsonFileEncoding.decode raises on text that is not an encoded envelope.
CanDecode(text) ==
  /\ Len(text) >= 4
  /\ text[1] = "{"
  /\ text[Len(text)] = "}"

Decode(text) ==
  [hint |-> text[2], ciphertext |-> SubSeq(text, 3, Len(text) - 1)]

\* The plaintext a note starts with.
PlainOf(f) == <<"note", BaseOf(f)>>

\* The view Obsidian opens for a file, by its extension.
ViewKindFor(e) ==
  IF e \in ENCRYPTED_FILE_EXTENSIONS THEN "encrypted"
  ELSE IF e = "md" THEN "markdown"
  ELSE "other"

\* instanceof TextFileView: markdown views and EncryptedMarkdownView.
IsTextFileView(kind) == kind \in {"markdown", "encrypted"}


\* ----------------------------------------------------------------- state
Batches == {1, 2}     \* the async invocations of the two menu commands

VARIABLES
  ext,          \* ext[f]: TFile.extension (with DirOf and BaseOf, TFile.path)
  content,      \* content[f]: the text the vault stores for f
  leaves,       \* the workspace leaves, in iteration order
  cache,        \* SessionPasswordService: path -> PasswordAndHint
  level,        \* SessionPasswordService.getLevel()
  faults,       \* faults injected so far
  invocations,  \* menu commands invoked so far
  pc,           \* pc[b]: where invocation b is suspended
  intent,       \* "encrypt" (processEncryptFolder) or "decrypt"
  folder,       \* folder.path of the invocation
  files,        \* const files: the eligible list computed at the start
  idx,          \* position of the for loop in files
  pwh,          \* const pwh: the resolved PasswordAndHint
  readText,     \* the text vault.read returned for the current file
  newText,      \* encryptedContent / decryptedContent of the current file
  didDetach,    \* let didDetach of closeUpdateRememberPasswordThenReopen
  thrown,       \* an exception is pending while the finally block runs
  ok,           \* let ok
  fail,         \* let fail
  notices,      \* Notice objects shown by the invocation
  trace,        \* history: the calls the invocation has made, in order
  atStart       \* history: vault, leaves and cache when the command was invoked,
                \* and the invocations that were suspended then

vaultVars == <<ext, content, leaves, cache>>
envVars == <<level>>
loopVars == <<idx, ok, fail, notices>>
localVars == <<intent, folder, files, pwh>>
vars == <<ext, content, leaves, cache, level, faults, invocations, pc, intent,
          folder, files, idx, pwh, readText, newText, didDetach, thrown, ok, fail,
          notices, trace, atStart>>

\* One entry of the history of calls.
Ev(op, f, succeeded, p) == [op |-> op, file |-> f, ok |-> succeeded, pwh |-> p]

path(f) == PathOf(f, ext[f])

\* vault.getFiles()
getFiles == <<1, 2, 3>>

\* getFilesRecursively, had it listed the direct children of the folder only.
getFilesOfFolderOnly(dir) ==
  LET prefix == IF Len(dir) > 0 THEN dir \o <<"/">> ELSE << >>
      direct(p) == \A i \in (Len(prefix) + 1)..Len(p) : p[i] # "/"
  IN SelectSeq(getFiles, LAMBDA f : StartsWith(path(f), prefix) /\ direct(path(f)))

\* getFilesRecursively, had the prefix been the folder path without the "/".
getFilesByNamePrefix(dir) ==
  SelectSeq(getFiles, LAMBDA f : StartsWith(path(f), dir))

getFilesRecursively(dir) ==
  LET prefix == IF Len(dir) > 0 THEN dir \o <<"/">> ELSE << >>
  IN SelectSeq(getFiles, LAMBDA f : StartsWith(path(f), prefix))

getMarkdownFiles(dir) ==
  SelectSeq(getFilesRecursively(dir), LAMBDA f : ext[f] = "md")

getEncryptedFiles(dir) ==
  SelectSeq(getFilesRecursively(dir), LAMBDA f : ext[f] \in ENCRYPTED_FILE_EXTENSIONS)

\* SessionPasswordService.getByPathAsync: the cached entry, or the blank one.
getByPathAsync(p) == IF p \in DOMAIN cache THEN cache[p] ELSE Blank

\* SessionPasswordService.putByFile: remember pw under the file's path.
putByFile(c, pw, p) ==
  [k \in (DOMAIN c) \cup {p} |-> IF k = p THEN pw ELSE c[k]]

\* A leaf showing file f.
Leaf(f, kind, pending) == [file |-> f, kind |-> kind, pending |-> pending]

\* The leaves iterateAllLeaves detaches for f: text views bound to f.
IsBound(l, f) == IsTextFileView(l.kind) /\ l.file = f

\* The stored text after the detached views of f are torn down:
\* EncryptedMarkdownView.detachSafely saves the view's pending text first.
RECURSIVE FlushInto(_, _, _)
FlushInto(ls, f, text) ==
  IF ls = << >> THEN text
  ELSE LET l == Head(ls)
       IN FlushInto(Tail(ls), f,
            IF IsBound(l, f) /\ l.kind = "encrypted" /\ l.pending # << >>
              THEN l.pending ELSE text)

\* NewExtension, had the decrypt loop passed the encrypted extension as well.
NewExtensionAlwaysEncrypted(i) == ENCRYPTED_FILE_EXTENSION_DEFAULT

\* The extension a batch renames to.
NewExtension(i) == IF i = "encrypt" THEN ENCRYPTED_FILE_EXTENSION_DEFAULT ELSE "md"

\* ------------------------------------------------------------------ Init
EncryptedNote(f) == Encode(Encrypt(PwA.password, PwA.hint, PlainOf(f)))

\* The vaults a behaviour starts from: all notes, and a mix of a note with two
\* encrypted files (one of each recognised extension).
InitExts ==
  { [f \in Files |-> "md"],
    [f \in Files |-> IF f = 1 THEN "mdenc" ELSE IF f = 2 THEN "md" ELSE "encrypted"] }

\* The leaves a behaviour starts from: file 1 is open in two text views, one
\* of them with unsaved text, and file 2 is shown by a view of another type.
InitLeaves(e) ==
  LET v(f) == Leaf(f, ViewKindFor(e[f]), << >>)
      edited == IF e[1] = "md" THEN <<"edit">>
                ELSE Encode(Encrypt(PwA.password, PwA.hint, <<"edit">>))
  IN { <<Leaf(1, ViewKindFor(e[1]), edited), Leaf(2, "other", << >>), v(1)>> }

InitCaches == { [k \in {} |-> Blank], [k \in Folders |-> PwA] }

Init ==
  /\ ext \in InitExts
  /\ content = [f \in Files |-> IF ext[f] = "md" THEN PlainOf(f) ELSE EncryptedNote(f)]
  /\ leaves \in InitLeaves(ext)
  /\ cache \in InitCaches
  /\ level \in Levels
  /\ faults = 0
  /\ invocations = 0
  /\ pc = [b \in Batches |-> "idle"]
  /\ intent = [b \in Batches |-> "encrypt"]
  /\ folder = [b \in Batches |-> << >>]
  /\ files = [b \in Batches |-> << >>]
  /\ idx = [b \in Batches |-> 0]
  /\ pwh = [b \in Batches |-> Blank]
  /\ readText = [b \in Batches |-> << >>]
  /\ newText = [b \in Batches |-> << >>]
  /\ didDetach = [b \in Batches |-> FALSE]
  /\ thrown = [b \in Batches |-> FALSE]
  /\ ok = [b \in Batches |-> 0]
  /\ fail = [b \in Batches |-> 0]
  /\ notices = [b \in Batches |-> 0]
  /\ trace = [b \in Batches |-> << >>]
  /\ atStart = [b \in Batches |-> [ext |-> ext, content |-> content,
                                   leaves |-> leaves, cache |-> cache,
                                   active |-> {}]]

\* --------------------------------------------------------------- actions
\* Current, had the loop walked the list from its end.
CurrentReversed(b) == files[b][Len(files[b]) + 1 - idx[b]]

Current(b) == files[b][idx[b]]

Log(b, evs) == trace' = [trace EXCEPT ![b] = @ \o evs]

NoticeEv == Ev("notice", 0, TRUE, Blank)

\* The for loop starts (or, on an empty list, falls through to the summary).
StartLoop(b, evs) ==
  /\ ok' = [ok EXCEPT ![b] = 0]
  /\ fail' = [fail EXCEPT ![b] = 0]
  /\ IF Len(files[b]) = 0
       THEN /\ pc' = [pc EXCEPT ![b] = "done"]
            /\ notices' = [notices EXCEPT ![b] = @ + 1]
            /\ idx' = idx
            /\ Log(b, evs \o <<NoticeEv>>)
       ELSE /\ pc' = [pc EXCEPT ![b] = "read"]
            /\ idx' = [idx EXCEPT ![b] = 1]
            /\ notices' = notices
            /\ Log(b, evs)

\* Finish, had the catch block left the loop: the first failure ends the batch.
FinishLeavingLoopOnFailure(b, evs, succeeded) ==
  /\ ok' = [ok EXCEPT ![b] = IF succeeded THEN @ + 1 ELSE @]
  /\ fail' = [fail EXCEPT ![b] = IF succeeded THEN @ ELSE @ + 1]
  /\ IF idx[b] = Len(files[b]) \/ ~succeeded
       THEN /\ pc' = [pc EXCEPT ![b] = "done"]
            /\ notices' = [notices EXCEPT ![b] = @ + 1]
            /\ idx' = idx
            /\ Log(b, evs \o <<NoticeEv>>)
       ELSE /\ pc' = [pc EXCEPT ![b] = "read"]
            /\ idx' = [idx EXCEPT ![b] = @ + 1]
            /\ notices' = notices
            /\ Log(b, evs)

\* Finish, had the catch block shown a Notice for the failed file.
FinishNotifyingFailure(b, evs, succeeded) ==
  /\ ok' = [ok EXCEPT ![b] = IF succeeded THEN @ + 1 ELSE @]
  /\ fail' = [fail EXCEPT ![b] = IF succeeded THEN @ ELSE @ + 1]
  /\ LET shown == IF succeeded THEN << >> ELSE <<NoticeEv>>
     IN IF idx[b] = Len(files[b])
          THEN /\ pc' = [pc EXCEPT ![b] = "done"]
               /\ notices' = [notices EXCEPT ![b] = @ + Len(shown) + 1]
               /\ idx' = idx
               /\ Log(b, evs \o shown \o <<NoticeEv>>)
          ELSE /\ pc' = [pc EXCEPT ![b] = "read"]
               /\ idx' = [idx EXCEPT ![b] = @ + 1]
               /\ notices' = [notices EXCEPT ![b] = @ + Len(shown)]
               /\ Log(b, evs \o shown)

\* The end of one iteration: ok++ or the catch block's fail++, then the next
\* file, or the summary Notice after the last one.
Finish(b, evs, succeeded) ==
  /\ ok' = [ok EXCEPT ![b] = IF succeeded THEN @ + 1 ELSE @]
  /\ fail' = [fail EXCEPT ![b] = IF succeeded THEN @ ELSE @ + 1]
  /\ IF idx[b] = Len(files[b])
       THEN /\ pc' = [pc EXCEPT ![b] = "done"]
            /\ notices' = [notices EXCEPT ![b] = @ + 1]
            /\ idx' = idx
            /\ Log(b, evs \o <<NoticeEv>>)
       ELSE /\ pc' = [pc EXCEPT ![b] = "read"]
            /\ idx' = [idx EXCEPT ![b] = @ + 1]
            /\ notices' = notices
            /\ Log(b, evs)

\* A step that stays inside the current iteration.
Goto(b, label, evs) ==
  /\ pc' = [pc EXCEPT ![b] = label]
  /\ Log(b, evs)
  /\ UNCHANGED loopVars

\* Finally, had the reopen been the last statement of the try block.
ReopenOnSuccessOnly(b, evs, raised) ==
  /\ thrown' = [thrown EXCEPT ![b] = raised]
  /\ IF didDetach[b] /\ ~raised
       THEN Goto(b, "reopen", evs)
       ELSE Finish(b, evs, ~raised)

\* The finally block of closeUpdateRememberPasswordThenReopen: reopen when a
\* view was detached, then the function returns or rethrows.
Finally(b, evs, raised) ==
  /\ thrown' = [thrown EXCEPT ![b] = raised]
  /\ IF didDetach[b]
       THEN Goto(b, "reopen", evs)
       ELSE Finish(b, evs, ~raised)

Fault ==
  /\ faults < MaxFaults
  /\ faults' = faults + 1

\* NothingToDo, had the length test been left out.
NothingToDoNever(list) == FALSE

\* if (files.length === 0): the "No ... files" Notice and return.
NothingToDo(list) == Len(list) = 0

\* The batch is between its invocation and its return.
Running(b) == pc[b] \notin {"idle", "done"}

\* The menu item's onClick: processEncryptFolder / processDecryptFolder up to
\* the first await.
Invoke(b, i, dir) ==
  /\ pc[b] \in {"idle", "done"}
  /\ invocations < MaxInvocations
  /\ invocations' = invocations + 1
  /\ LET list == IF i = "encrypt" THEN getMarkdownFiles(dir) ELSE getEncryptedFiles(dir)
     IN /\ files' = [files EXCEPT ![b] = list]
        /\ IF NothingToDo(list)
             THEN /\ pc' = [pc EXCEPT ![b] = "done"]
                  /\ notices' = [notices EXCEPT ![b] = 1]
                  /\ trace' = [trace EXCEPT ![b] = <<NoticeEv>>]
             ELSE /\ pc' = [pc EXCEPT ![b] = "resolve"]
                  /\ notices' = [notices EXCEPT ![b] = 0]
                  /\ trace' = [trace EXCEPT ![b] = << >>]
  /\ intent' = [intent EXCEPT ![b] = i]
  /\ folder' = [folder EXCEPT ![b] = dir]
  /\ idx' = [idx EXCEPT ![b] = 0]
  /\ ok' = [ok EXCEPT ![b] = 0]
  /\ fail' = [fail EXCEPT ![b] = 0]
  /\ pwh' = [pwh EXCEPT ![b] = Blank]
  /\ readText' = [readText EXCEPT ![b] = << >>]
  /\ newText' = [newText EXCEPT ![b] = << >>]
  /\ didDetach' = [didDetach EXCEPT ![b] = FALSE]
  /\ thrown' = [thrown EXCEPT ![b] = FALSE]
  /\ atStart' = [atStart EXCEPT ![b] = [ext |-> ext, content |-> content,
                                        leaves |-> leaves, cache |-> cache,
                                        active |-> {c \in Batches \ {b} : Running(c)}]]
  /\ UNCHANGED <<vaultVars, envVars, faults>>

\* UsesLookupOnly, had the level test been left out.
UsesLookupOnlyNever(lv) == FALSE

\* getLevel() === LevelExternalFile: the lookup is the answer, no prompt.
UsesLookupOnly(lv) == lv = LevelExternalFile

\* MustPrompt, had the cached password been ignored.
MustPromptAlways(found) == TRUE

\* pwh.password === "": nothing is cached for the folder, so ask the user.
MustPrompt(found) == found.password = ""

\* promptPasswordForFolder up to the prompt: the level test and the lookup.
Resolve(b) ==
  /\ pc[b] = "resolve"
  /\ LET found == getByPathAsync(folder[b])
         asked == Ev("lookup", 0, TRUE, found)
     IN IF UsesLookupOnly(level)
          THEN /\ pwh' = [pwh EXCEPT ![b] = found]
               /\ StartLoop(b, <<asked>>)
          ELSE IF MustPrompt(found)
            THEN /\ pwh' = pwh
                 /\ Goto(b, "prompt", <<asked, Ev("prompt", 0, TRUE, found)>>)
            ELSE /\ pwh' = [pwh EXCEPT ![b] = found]
                 /\ StartLoop(b, <<asked>>)
  /\ UNCHANGED <<vaultVars, envVars, faults, invocations, intent, folder, files,
                 readText, newText, didDetach, thrown, atStart>>

\* PluginPasswordModal.openAsync resolves with what the user typed.
PromptSubmit(b, answer) ==
  /\ pc[b] = "prompt"
  /\ pwh' = [pwh EXCEPT ![b] = answer]
  /\ StartLoop(b, <<Ev("submit", 0, TRUE, answer)>>)
  /\ UNCHANGED <<vaultVars, envVars, faults, invocations, intent, folder, files,
                 readText, newText, didDetach, thrown, atStart>>

\* PromptCancel, had the catch let the batch go on with the blank password.
PromptCancelGoingOn(b) ==
  /\ pc[b] = "prompt"
  /\ StartLoop(b, <<Ev("cancel", 0, TRUE, Blank)>>)
  /\ UNCHANGED <<vaultVars, envVars, faults, invocations, localVars,
                 readText, newText, didDetach, thrown, atStart>>

\* PluginPasswordModal.openAsync rejects: the catch returns null and the
\* batch returns at `if (!pwh)`.
PromptCancel(b) ==
  /\ pc[b] = "prompt"
  /\ Goto(b, "done", <<Ev("cancel", 0, TRUE, Blank)>>)
  /\ UNCHANGED <<vaultVars, envVars, faults, invocations, localVars,
                 readText, newText, didDetach, thrown, atStart>>

\* encryptFile / decryptFile: await vault.read(file).
Read(b) ==
  /\ pc[b] = "read"
  /\ \/ /\ readText' = [readText EXCEPT ![b] = content[Current(b)]]
        /\ Goto(b, "crypto", <<Ev("read", Current(b), TRUE, pwh[b])>>)
        /\ UNCHANGED faults
     \/ /\ Fault
        /\ Finish(b, <<Ev("read", Current(b), FALSE, pwh[b])>>, FALSE)
        /\ UNCHANGED readText
  /\ UNCHANGED <<vaultVars, envVars, invocations, localVars, newText, didDetach,
                 thrown, atStart>>

\* The text encryptFile returns for the text read.
encryptFile(text, p) == Encode(Encrypt(p.password, p.hint, text))

\* decryptFile: decode raises on malformed text; decrypt may return null.
decryptFileRaises(text) == ~CanDecode(text)
decryptFile(text, password) == Decrypt(Decode(text), password)

\* Detached, had the iteration stopped at the first view of the file.
RECURSIVE DetachedFirstOnly(_, _)
DetachedFirstOnly(ls, f) ==
  IF ls = << >> THEN << >>
  ELSE IF IsBound(Head(ls), f) THEN Tail(ls)
  ELSE <<Head(ls)>> \o DetachedFirstOnly(Tail(ls), f)

\* The leaves left after iterateAllLeaves has detached the text views of f.
Detached(ls, f) == SelectSeq(ls, LAMBDA l : ~IsBound(l, f))

\* BeginUpdate, had the content been written before the rename.
BeginUpdateWritingFirst(b, text, evs) ==
  LET f == Current(b)
      kept == Detached(leaves, f)
      did == Len(kept) < Len(leaves)
  IN /\ newText' = [newText EXCEPT ![b] = text]
     /\ leaves' = kept
     /\ content' = [content EXCEPT ![f] = text]
     /\ didDetach' = [didDetach EXCEPT ![b] = did]
     /\ thrown' = [thrown EXCEPT ![b] = FALSE]
     /\ Goto(b, "rename",
             evs \o (IF did THEN <<Ev("detach", f, TRUE, Blank)>> ELSE << >>))

\* The first half of closeUpdateRememberPasswordThenReopen, which runs without
\* suspension: detach the views of the file, compute the new path and call
\* fileManager.renameFile.
BeginUpdate(b, text, evs) ==
  LET f == Current(b)
      kept == Detached(leaves, f)
      did == Len(kept) < Len(leaves)
  IN /\ newText' = [newText EXCEPT ![b] = text]
     /\ leaves' = kept
     /\ content' = [content EXCEPT ![f] = FlushInto(leaves, f, @)]
     /\ didDetach' = [didDetach EXCEPT ![b] = did]
     /\ thrown' = [thrown EXCEPT ![b] = FALSE]
     /\ Goto(b, "rename",
             evs \o (IF did THEN <<Ev("detach", f, TRUE, Blank)>> ELSE << >>))

\* Crypto, had processDecryptFolder gone on with a null decrypt result.
CryptoWritingNull(b) ==
  /\ pc[b] = "crypto"
  /\ LET f == Current(b)
         good == Ev("crypto", f, TRUE, pwh[b])
         bad == Ev("crypto", f, FALSE, pwh[b])
     IN \/ /\ intent[b] = "encrypt"
           /\ BeginUpdate(b, encryptFile(readText[b], pwh[b]), <<good>>)
           /\ UNCHANGED faults
        \/ /\ intent[b] = "decrypt"
           /\ UNCHANGED faults
           /\ IF decryptFileRaises(readText[b])
                THEN /\ Finish(b, <<bad>>, FALSE)
                     /\ UNCHANGED <<leaves, content, newText, didDetach, thrown>>
                ELSE BeginUpdate(b, decryptFile(readText[b], pwh[b].password).text,
                                 <<good>>)
        \/ /\ Fault
           /\ Finish(b, <<bad>>, FALSE)
           /\ UNCHANGED <<leaves, content, newText, didDetach, thrown>>
  /\ UNCHANGED <<ext, cache, envVars, invocations, localVars, readText, atStart>>

\* The crypto half of encryptFile / decryptFile, the null test of
\* processDecryptFolder, and on success the start of the update.
Crypto(b) ==
  /\ pc[b] = "crypto"
  /\ LET f == Current(b)
         good == Ev("crypto", f, TRUE, pwh[b])
         bad == Ev("crypto", f, FALSE, pwh[b])
     IN \/ /\ intent[b] = "encrypt"
           /\ BeginUpdate(b, encryptFile(readText[b], pwh[b]), <<good>>)
           /\ UNCHANGED faults
        \/ /\ intent[b] = "decrypt"
           /\ UNCHANGED faults
           /\ IF decryptFileRaises(readText[b])
                THEN /\ Finish(b, <<bad>>, FALSE)
                     /\ UNCHANGED <<leaves, content, newText, didDetach, thrown>>
                ELSE LET plain == decryptFile(readText[b], pwh[b].password)
                     IN IF plain.isNull
                          THEN /\ Finish(b, <<bad>>, FALSE)
                               /\ UNCHANGED <<leaves, content, newText, didDetach,
                                              thrown>>
                          ELSE BeginUpdate(b, plain.text, <<good>>)
        \/ /\ Fault
           /\ Finish(b, <<bad>>, FALSE)
           /\ UNCHANGED <<leaves, content, newText, didDetach, thrown>>
  /\ UNCHANGED <<ext, cache, envVars, invocations, localVars, readText, atStart>>

\* await fileManager.renameFile(file, newFilepath)
Rename(b) ==
  /\ pc[b] = "rename"
  /\ LET f == Current(b)
         newFilepath == getFilePathWithNewExtension(f, NewExtension(intent[b]))
     IN \/ /\ ext' = [ext EXCEPT ![f] = ExtensionOfPath(newFilepath)]
           /\ Goto(b, "modify", <<Ev("rename", f, TRUE, Blank)>>)
           /\ UNCHANGED <<faults, thrown>>
        \/ /\ Fault
           /\ Finally(b, <<Ev("rename", f, FALSE, Blank)>>, TRUE)
           /\ UNCHANGED ext
  /\ UNCHANGED <<content, leaves, cache, envVars, invocations, localVars, readText,
                 newText, didDetach, atStart>>

\* Modify, had putByFile been called before the write was awaited.
ModifyCachingFirst(b) ==
  /\ pc[b] = "modify"
  /\ LET f == Current(b)
     IN /\ cache' = putByFile(cache, pwh[b], path(f))
        /\ \/ /\ content' = [content EXCEPT ![f] = newText[b]]
              /\ Finally(b, <<Ev("put", f, TRUE, pwh[b]), Ev("modify", f, TRUE, Blank)>>,
                         FALSE)
              /\ UNCHANGED faults
           \/ /\ Fault
              /\ Finally(b, <<Ev("put", f, TRUE, pwh[b]), Ev("modify", f, FALSE, Blank)>>,
                         TRUE)
              /\ UNCHANGED content
  /\ UNCHANGED <<ext, leaves, envVars, invocations, localVars, readText, newText,
                 didDetach, atStart>>

\* Modify, had a failed write been swallowed instead of rethrown.
ModifySwallowingFailure(b) ==
  /\ pc[b] = "modify"
  /\ LET f == Current(b)
     IN \/ /\ content' = [content EXCEPT ![f] = newText[b]]
           /\ cache' = putByFile(cache, pwh[b], path(f))
           /\ Finally(b, <<Ev("modify", f, TRUE, Blank), Ev("put", f, TRUE, pwh[b])>>,
                      FALSE)
           /\ UNCHANGED faults
        \/ /\ Fault
           /\ Finally(b, <<Ev("modify", f, FALSE, Blank)>>, FALSE)
           /\ UNCHANGED <<content, cache>>
  /\ UNCHANGED <<ext, leaves, envVars, invocations, localVars, readText, newText,
                 didDetach, atStart>>

\* await vault.modify(file, content), then putByFile, then the finally block.
Modify(b) ==
  /\ pc[b] = "modify"
  /\ LET f == Current(b)
     IN \/ /\ content' = [content EXCEPT ![f] = newText[b]]
           /\ cache' = putByFile(cache, pwh[b], path(f))
           /\ Finally(b, <<Ev("modify", f, TRUE, Blank), Ev("put", f, TRUE, pwh[b])>>,
                      FALSE)
           /\ UNCHANGED faults
        \/ /\ Fault
           /\ Finally(b, <<Ev("modify", f, FALSE, Blank)>>, TRUE)
           /\ UNCHANGED <<content, cache>>
  /\ UNCHANGED <<ext, leaves, envVars, invocations, localVars, readText, newText,
                 didDetach, atStart>>

\* finally: await workspace.getLeaf(true).openFile(file)
Reopen(b) ==
  /\ pc[b] = "reopen"
  /\ LET f == Current(b)
     IN \/ /\ leaves' = Append(leaves, Leaf(f, ViewKindFor(ext[f]), << >>))
           /\ Finish(b, <<Ev("reopen", f, TRUE, Blank)>>, ~thrown[b])
           /\ UNCHANGED faults
        \/ /\ Fault
           /\ Finish(b, <<Ev("reopen", f, FALSE, Blank)>>, FALSE)
           /\ UNCHANGED leaves
  /\ UNCHANGED <<ext, content, cache, envVars, invocations, localVars, readText,
                 newText, didDetach, thrown, atStart>>

\* ---------------------------------------------------------- specification
Step(b) ==
  \/ Resolve(b)
  \/ \E answer \in PromptAnswers : PromptSubmit(b, answer)
  \/ PromptCancel(b)
  \/ Read(b)
  \/ Crypto(b)
  \/ Rename(b)
  \/ Modify(b)
  \/ Reopen(b)

\* One command at a time: a command is invoked when no batch is running.
InvokeAlone(i, dir) == Invoke(1, i, dir)

Next ==
  \/ \E i \in {"encrypt", "decrypt"}, dir \in Folders : InvokeAlone(i, dir)
  \/ \E b \in Batches : Step(b)

Spec == Init /\ [][Next]_vars

\* One command at a time, in alternating slots, so that the history of the
\* previous command is still at hand while the next one runs.
InvokeInTurn(i, dir) ==
  /\ \A b \in Batches : ~Running(b)
  /\ Invoke((invocations % 2) + 1, i, dir)

NextInTurn ==
  \/ \E i \in {"encrypt", "decrypt"}, dir \in Folders : InvokeInTurn(i, dir)
  \/ \E b \in Batches : Step(b)

SpecInTurn == Init /\ [][NextInTurn]_vars

\* The menu stays usable while a batch is suspended at an await: a command
\* can be invoked at any moment.
NextConcurrent ==
  \/ \E b \in Batches, i \in {"encrypt", "decrypt"}, dir \in Folders : Invoke(b, i, dir)
  \/ \E b \in Batches : Step(b)

\* Concurrent commands are explored from the session level that prompts,
\* with nothing cached yet.
InitConcurrent ==
  /\ Init
  /\ level = "vault"
  /\ DOMAIN cache = {}

SpecConcurrent == InitConcurrent /\ [][NextConcurrent]_vars

\* ------------------------------------------------------- history helpers
\* The positions of the history of b where op was called on f.
Calls(b, op, f) ==
  {j \in DOMAIN trace[b] : trace[b][j].op = op /\ trace[b][j].file = f}

\* The positions where a call on f raised (or decrypt returned null).
Raised(b, f) ==
  {j \in DOMAIN trace[b] : trace[b][j].file = f /\ ~trace[b][j].ok}

FilesOf(b) == {files[b][k] : k \in DOMAIN files[b]}

\* The batch has run its loop and shown the summary Notice.
Summarised(b) ==
  /\ pc[b] = "done"
  /\ Len(files[b]) > 0
  /\ Len(trace[b]) > 0
  /\ trace[b][Len(trace[b])].op = "notice"

\* ---------------------------------------------------------------- claims
\* C1: a failure of one file never stops the loop: when the summary is shown,
\* every file of the eligible list has been attempted (read) exactly once,
\* ok + fail is the size of the list, and fail is the number of files whose
\* attempt raised.
C1_EveryFileAttemptedOnce ==
  \A b \in Batches :
    Summarised(b) =>
      /\ Cardinality(FilesOf(b)) = Len(files[b])
      /\ \A f \in FilesOf(b) : Cardinality(Calls(b, "read", f)) = 1
      /\ \A f \in Files \ FilesOf(b) : Calls(b, "read", f) = {}
      /\ ok[b] + fail[b] = Len(files[b])
      /\ fail[b] = Cardinality({f \in FilesOf(b) : Raised(b, f) # {}})

\* A summarised batch in which a file failed and a later file was still
\* attempted and succeeded.
C1_Witness ==
  \E b \in Batches :
    /\ Summarised(b)
    /\ ok[b] >= 1
    /\ \E j, k \in DOMAIN trace[b] :
         /\ j < k
         /\ ~trace[b][j].ok
         /\ trace[b][k].op = "read"
         /\ trace[b][k].ok
         /\ trace[b][k].file # trace[b][j].file

\* The batch is inside its for loop.
InLoop(b) == pc[b] \in {"read", "crypto", "rename", "modify", "reopen"}

\* File number k of the batch is not being transformed: the loop is at
\* another file, or the batch has ended.
AtRest(b, k) ==
  \/ pc[b] = "done"
  \/ InLoop(b) /\ k # idx[b]

\* What the batch turns a text into.
Transform(b, text) ==
  IF intent[b] = "encrypt"
    THEN encryptFile(text, pwh[b])
    ELSE decryptFile(text, pwh[b].password).text

\* The texts f can hold without having been transformed: its text when the
\* command was invoked, or what a detached view of it saved.
UntransformedTexts(b, f) ==
  {atStart[b].content[f]} \cup
  {atStart[b].leaves[j].pending : j \in
     {i \in DOMAIN atStart[b].leaves :
        /\ IsBound(atStart[b].leaves[i], f)
        /\ atStart[b].leaves[i].pending # << >>}}

Untouched(b, f) ==
  /\ ext[f] = atStart[b].ext[f]
  /\ content[f] \in UntransformedTexts(b, f)

FullyTransformed(b, f) ==
  /\ ext[f] = NewExtension(intent[b])
  /\ ext[f] # atStart[b].ext[f]
  /\ content[f] = Transform(b, atStart[b].content[f])

\* Renamed, but still holding the untransformed text.
RenamedButStale(b, f) ==
  /\ ext[f] = NewExtension(intent[b])
  /\ ext[f] # atStart[b].ext[f]
  /\ content[f] \in UntransformedTexts(b, f)

\* C2 as stated: a file at rest is never left with mismatched content and
\* extension: it has its original path and untransformed text (its text at
\* invocation, or the text a detached view saved), or the new extension with
\* the transformed text.
C2_NeverMismatched ==
  \A b \in Batches : \A k \in DOMAIN files[b] :
    AtRest(b, k) =>
      \/ Untouched(b, files[b][k])
      \/ FullyTransformed(b, files[b][k])

\* C2 amended: a file at rest has its original path and text, or the new
\* extension with the transformed text, or, exactly when its rename succeeded
\* and the write after it failed, the new extension with its untransformed
\* text.
C2_MismatchOnlyAfterFailedWrite ==
  \A b \in Batches : \A k \in DOMAIN files[b] :
    LET f == files[b][k]
        renamed == \E j \in Calls(b, "rename", f) : trace[b][j].ok
        written == \E j \in Calls(b, "modify", f) : trace[b][j].ok
        untouched == Untouched(b, f)
        transformed == FullyTransformed(b, f)
        stale == RenamedButStale(b, f)
    IN AtRest(b, k) =>
         /\ untouched \/ transformed \/ stale
         /\ untouched <=> ~renamed
         /\ transformed <=> written
         /\ stale <=> (renamed /\ ~written)

\* A finished batch that left one file renamed but stale, one file fully
\* transformed and one file untouched after a failed rename.
C2_Witness ==
  \E b \in Batches :
    /\ Summarised(b)
    /\ \E k \in DOMAIN files[b] : RenamedButStale(b, files[b][k])
    /\ \E k \in DOMAIN files[b] : FullyTransformed(b, files[b][k])
    /\ \E k \in DOMAIN files[b] :
         /\ Untouched(b, files[b][k])
         /\ \E j \in Calls(b, "rename", files[b][k]) : ~trace[b][j].ok

\* The positions of the history of b where op was called, on any file.
CallsOf(b, op) == {j \in DOMAIN trace[b] : trace[b][j].op = op}

\* The calls that read or change a file, a view or the cache.
FileOps == {"read", "crypto", "detach", "rename", "modify", "put", "reopen"}

\* The password prompt of the batch was cancelled.
Cancelled(b) == CallsOf(b, "cancel") # {}

\* C3: when the password prompt is cancelled the batch ends before any file
\* is touched: paths, contents, open views and the password cache are what
\* they were when the command was invoked, and the batch has made no read,
\* detach, rename, modify, putByFile or openFile call.
C3_CancelTouchesNothing ==
  \A b \in Batches :
    Cancelled(b) =>
      /\ pc[b] = "done"
      /\ ext = atStart[b].ext
      /\ content = atStart[b].content
      /\ leaves = atStart[b].leaves
      /\ cache = atStart[b].cache
      /\ \A j \in DOMAIN trace[b] : trace[b][j].op \notin FileOps
      /\ ok[b] = 0 /\ fail[b] = 0

\* A cancelled batch whose eligible list has a file that is open in a view.
C3_Witness ==
  \E b \in Batches :
    /\ Cancelled(b)
    /\ Len(files[b]) > 1
    /\ \E j \in DOMAIN leaves : IsBound(leaves[j], files[b][1])

\* The files the command is about, from the vault as it was when the command
\* was invoked: under the folder, with an extension of the direction.
EligibleAtStart(b) ==
  LET prefix == IF folder[b] = << >> THEN << >> ELSE folder[b] \o <<"/">>
  IN {f \in Files :
        /\ StartsWith(PathOf(f, atStart[b].ext[f]), prefix)
        /\ IF intent[b] = "encrypt"
             THEN atStart[b].ext[f] = "md"
             ELSE atStart[b].ext[f] \in ENCRYPTED_FILE_EXTENSIONS}

\* C4: on a folder without eligible files the command ends right after its
\* "No ... files" Notice: no cache lookup, no prompt, no file, view or cache
\* entry read or changed.
C4_EmptyFolderReturnsAtOnce ==
  \A b \in Batches :
    (pc[b] # "idle" /\ EligibleAtStart(b) = {}) =>
      /\ pc[b] = "done"
      /\ trace[b] = <<NoticeEv>>
      /\ notices[b] = 1
      /\ ext = atStart[b].ext
      /\ content = atStart[b].content
      /\ leaves = atStart[b].leaves
      /\ cache = atStart[b].cache

\* Decrypt folder on a folder that holds notes but no encrypted file, at a
\* level and cache state in which a non-empty list would have prompted.
C4_Witness ==
  \E b \in Batches :
    /\ pc[b] = "done"
    /\ intent[b] = "decrypt"
    /\ EligibleAtStart(b) = {}
    /\ \E f \in Files : StartsWith(path(f), folder[b] \o <<"/">>)
    /\ level # LevelExternalFile
    /\ getByPathAsync(folder[b]).password = ""

\* Every file of the batch has been attempted before position j of the history.
AllAttemptedBefore(b, j) ==
  \A f \in FilesOf(b) : \E i \in Calls(b, "read", f) : i < j

\* C5 as stated: every invocation has shown exactly one Notice when it ends,
\* on every path, and none before the last file has been attempted.
C5_AlwaysOneNotice ==
  \A b \in Batches :
    /\ pc[b] = "done" => notices[b] = 1
    /\ \A j \in CallsOf(b, "notice") : AllAttemptedBefore(b, j)

\* C5 amended: an invocation that ends has shown exactly one Notice, except
\* when the password prompt was cancelled, where it has shown none; no Notice
\* is shown while the invocation runs, and the Notice comes after every file
\* has been attempted.
C5_OneNoticeUnlessCancelled ==
  \A b \in Batches :
    /\ notices[b] = Cardinality(CallsOf(b, "notice"))
    /\ pc[b] = "done" => notices[b] = (IF Cancelled(b) THEN 0 ELSE 1)
    /\ pc[b] \notin {"done", "idle"} => notices[b] = 0
    /\ \A j \in CallsOf(b, "notice") :
         /\ j = Len(trace[b])
         /\ AllAttemptedBefore(b, j)

\* An invocation that ended at the cancelled prompt without any Notice.
C5_Witness ==
  \E b \in Batches :
    /\ pc[b] = "done"
    /\ Cancelled(b)
    /\ Len(files[b]) > 0
    /\ notices[b] = 0

\* The batch is inside closeUpdateRememberPasswordThenReopen for f.
Updating(b, f) ==
  /\ pc[b] \in {"rename", "modify", "reopen"}
  /\ Current(b) = f

\* C6: when a view of a file was detached, openFile is called for that file
\* before the next file is read, whether the rename and the write succeed,
\* the rename fails, or the write fails; a finished batch has called openFile
\* for every file it detached.
C6_DetachedIsReopened ==
  \A b \in Batches : \A j \in CallsOf(b, "detach") :
    LET f == trace[b][j].file
        later == {r \in CallsOf(b, "read") : r > j}
    IN \/ later = {} /\ Updating(b, f)
       \/ \E i \in Calls(b, "reopen", f) :
            /\ i > j
            /\ \A r \in later : i < r

\* A file whose view was detached and whose rename failed was reopened, and
\* the batch then went on to the next file.
C6_Witness ==
  \E b \in Batches : \E j \in CallsOf(b, "detach") :
    LET f == trace[b][j].file
    IN /\ \E i \in Calls(b, "rename", f) : ~trace[b][i].ok
       /\ \E i \in Calls(b, "reopen", f) :
            \E r \in CallsOf(b, "read") : r > i

\* f was open in a text view when the command was invoked.
WasOpen(b, f) ==
  \E j \in DOMAIN atStart[b].leaves : IsBound(atStart[b].leaves[j], f)

\* f was shown by some leaf, of any view type, when the command was invoked.
WasShown(b, f) ==
  \E j \in DOMAIN atStart[b].leaves : atStart[b].leaves[j].file = f

\* f went through the whole transform without any call raising.
FaultFree(b, f) ==
  /\ \E j \in Calls(b, "modify", f) : trace[b][j].ok
  /\ Raised(b, f) = {}
  /\ ~Updating(b, f)

\* C7 as stated: every view bound to a file is detached before the file is
\* renamed or written, a fault-free transform of a file that was open leaves
\* a new view on it, and a file that was not open is never reopened.
C7_AllViewsDetached ==
  \A b \in Batches :
    /\ pc[b] \in {"rename", "modify"} =>
         \A j \in DOMAIN leaves : leaves[j].file # Current(b)
    /\ \A f \in FilesOf(b) :
         /\ (WasShown(b, f) /\ FaultFree(b, f)) =>
              \E i \in Calls(b, "reopen", f) : trace[b][i].ok
         /\ ~WasShown(b, f) => Calls(b, "reopen", f) = {}

\* C7 amended: every text view (TextFileView) bound to a file is detached
\* before the file is renamed or written; after a fault-free transform of a
\* file that was open in a text view, a new leaf shows the file with the view
\* of its new extension; a file that was not open in a text view is never
\* reopened. Views of other types are left alone.
C7_TextViewsDetached ==
  \A b \in Batches :
    /\ pc[b] \in {"rename", "modify"} =>
         \A j \in DOMAIN leaves : ~IsBound(leaves[j], Current(b))
    /\ \A f \in FilesOf(b) :
         /\ (WasOpen(b, f) /\ FaultFree(b, f)) =>
              /\ \E i \in Calls(b, "reopen", f) : trace[b][i].ok
              /\ \E d \in Calls(b, "detach", f) : \A r \in Calls(b, "rename", f) : d < r
              /\ \E j \in DOMAIN leaves :
                   leaves[j] = Leaf(f, ViewKindFor(NewExtension(intent[b])), << >>)
              /\ \A j \in DOMAIN leaves :
                   leaves[j].file = f => leaves[j].kind = ViewKindFor(ext[f])
         /\ ~WasOpen(b, f) => Calls(b, "reopen", f) = {}
         /\ ~WasOpen(b, f) => Calls(b, "detach", f) = {}
    /\ \A j \in DOMAIN atStart[b].leaves :
         (pc[b] # "idle" /\ ~IsTextFileView(atStart[b].leaves[j].kind)) =>
            \E i \in DOMAIN leaves : leaves[i] = atStart[b].leaves[j]

\* A finished batch that transformed, without fault, a file open in two text
\* views and a file shown only by a view of another type.
C7_Witness ==
  \E b \in Batches :
    /\ Summarised(b)
    /\ \E f \in FilesOf(b) :
         /\ FaultFree(b, f)
         /\ Cardinality({j \in DOMAIN atStart[b].leaves :
                           IsBound(atStart[b].leaves[j], f)}) = 2
    /\ \E f \in FilesOf(b) :
         /\ FaultFree(b, f)
         /\ WasShown(b, f)
         /\ ~WasOpen(b, f)

\* The files of the batch for which putByFile was called.
Remembered(b) == {f \in FilesOf(b) : Calls(b, "put", f) # {}}

\* The cache the batch leaves: what it was at invocation, plus the resolved
\* password under the new path of every remembered file.
CacheAfter(b) ==
  LET added == {PathOf(f, NewExtension(intent[b])) : f \in Remembered(b)}
      before == atStart[b].cache
  IN [k \in (DOMAIN before) \cup added |->
        IF k \in DOMAIN before /\ k \notin added THEN before[k] ELSE pwh[b]]

\* C8: putByFile is called for a file exactly when its rename and its write
\* both succeeded, at most once, right after the write, with the resolved
\* password of the batch and under the new path of the file; the cache holds
\* nothing else new, so a batch in which no file gets through rename and
\* write leaves the cache as it was.
C8_CachedIffRenamedAndWritten ==
  \A b \in Batches :
    pc[b] # "idle" =>
      /\ \A f \in FilesOf(b) :
           LET puts == Calls(b, "put", f)
           IN /\ Cardinality(puts) <= 1
              /\ (puts # {}) <=>
                   /\ \E j \in Calls(b, "rename", f) : trace[b][j].ok
                   /\ \E j \in Calls(b, "modify", f) : trace[b][j].ok
              /\ \A j \in puts :
                   /\ j > 1
                   /\ trace[b][j - 1] = Ev("modify", f, TRUE, Blank)
                   /\ trace[b][j].pwh = pwh[b]
      /\ \A j \in CallsOf(b, "put") : trace[b][j].file \in FilesOf(b)
      /\ IF CallsOf(b, "put") = {}
           THEN cache = atStart[b].cache
           ELSE cache = CacheAfter(b)

\* A finished batch that remembered the password for one file under its new
\* path and not for a file whose write failed.
C8_Witness ==
  \E b \in Batches :
    /\ Summarised(b)
    /\ \E f \in Remembered(b) :
         /\ PathOf(f, NewExtension(intent[b])) \notin DOMAIN atStart[b].cache
         /\ cache[PathOf(f, NewExtension(intent[b]))] = pwh[b]
    /\ \E f \in FilesOf(b) \ Remembered(b) :
         \E j \in Calls(b, "modify", f) : ~trace[b][j].ok

\* What getByPathAsync(folder.path) returned to the batch: the entry the cache
\* held for the folder path when the command was invoked.
LookedUp(b) ==
  IF folder[b] \in DOMAIN atStart[b].cache THEN atStart[b].cache[folder[b]] ELSE Blank

\* The calls of the batch that are given the PasswordAndHint.
PasswordOps == {"read", "crypto", "put"}

\* C9: at level ExternalFile the prompt is never opened, whatever the lookup
\* returns, the empty password included: the lookup result is the password of
\* the batch and the loop runs with it.
C9_ExternalFileNeverPrompts ==
  \A b \in Batches :
    (level = LevelExternalFile /\ pc[b] # "idle") =>
      /\ pc[b] # "prompt"
      /\ CallsOf(b, "prompt") = {}
      /\ CallsOf(b, "cancel") = {}
      /\ pc[b] \notin {"resolve"} /\ Len(files[b]) > 0 =>
           /\ Cardinality(CallsOf(b, "lookup")) = 1
           /\ trace[b][1] = Ev("lookup", 0, TRUE, LookedUp(b))
           /\ pwh[b] = LookedUp(b)
           /\ \A j \in DOMAIN trace[b] :
                trace[b][j].op \in PasswordOps => trace[b][j].pwh = LookedUp(b)
           /\ InLoop(b) \/ Summarised(b)

\* At level ExternalFile the lookup returned the empty password and the batch
\* encrypted and remembered a file with it, without a prompt.
C9_Witness ==
  \E b \in Batches :
    /\ level = LevelExternalFile
    /\ LookedUp(b) = Blank
    /\ CallsOf(b, "prompt") = {}
    /\ \E j \in CallsOf(b, "put") : trace[b][j].pwh = Blank

\* C10: at any other level the prompt is opened at most once per batch, and
\* only when the lookup for the folder path returned the empty password; a
\* non-empty lookup result is the password of every file of the batch, with
\* no prompt; every file of one batch is given the same PasswordAndHint.
C10_OnePasswordPerBatch ==
  \A b \in Batches :
    (level # LevelExternalFile /\ pc[b] \notin {"idle", "resolve"} /\ Len(files[b]) > 0) =>
      /\ Cardinality(CallsOf(b, "lookup")) = 1
      /\ trace[b][1] = Ev("lookup", 0, TRUE, LookedUp(b))
      /\ Cardinality(CallsOf(b, "prompt")) <= 1
      /\ CallsOf(b, "prompt") # {} <=> LookedUp(b).password = ""
      /\ LookedUp(b).password # "" =>
           /\ pwh[b] = LookedUp(b)
           /\ Cardinality(CallsOf(b, "submit")) = 0
      /\ \A j \in CallsOf(b, "submit") : pwh[b] = trace[b][j].pwh
      /\ Cardinality(CallsOf(b, "submit")) <= 1
      /\ \A j \in DOMAIN trace[b] :
           trace[b][j].op \in PasswordOps => trace[b][j].pwh = pwh[b]

\* A batch that took a non-empty password from the cache and gave it to two
\* files, without a prompt.
C10_Witness ==
  \E b \in Batches :
    /\ level # LevelExternalFile
    /\ LookedUp(b) = PwA
    /\ CallsOf(b, "prompt") = {}
    /\ \E i, j \in CallsOf(b, "crypto") :
         /\ trace[b][i].file # trace[b][j].file
         /\ trace[b][i].pwh = PwA
         /\ trace[b][j].pwh = PwA

\* The batch has shown its summary and no call of it raised.
FaultFreeBatch(b) ==
  /\ Summarised(b)
  /\ fail[b] = 0
  /\ \A j \in DOMAIN trace[b] : trace[b][j].ok

\* C11: after a fault-free Encrypt folder batch, every note under the folder,
\* nested folders included, has the default encrypted extension with the same
\* folder and basename; its text is the encoded envelope of its original
\* text under the batch password, which decodes and decrypts back to the
\* original text; and the cache holds the batch password under its new path.
C11_EncryptFolderResult ==
  \A b \in Batches :
    (FaultFreeBatch(b) /\ intent[b] = "encrypt") =>
      /\ ok[b] = Cardinality(EligibleAtStart(b))
      /\ \A f \in EligibleAtStart(b) :
           LET original == atStart[b].content[f]
           IN /\ ext[f] = ENCRYPTED_FILE_EXTENSION_DEFAULT
              /\ path(f) = (IF DirOf(f) = << >> THEN << >> ELSE DirOf(f) \o <<"/">>)
                             \o <<BaseOf(f), ".", ENCRYPTED_FILE_EXTENSION_DEFAULT>>
              /\ content[f] = Encode(Encrypt(pwh[b].password, pwh[b].hint, original))
              /\ CanDecode(content[f])
              /\ Decode(content[f]).hint = pwh[b].hint
              /\ Decrypt(Decode(content[f]), pwh[b].password) =
                   [isNull |-> FALSE, text |-> original]
              /\ path(f) \in DOMAIN cache
              /\ cache[path(f)] = pwh[b]

\* A fault-free Encrypt folder batch over three notes, one of them in a
\* nested folder, with a password typed into the prompt.
C11_Witness ==
  \E b \in Batches :
    /\ FaultFreeBatch(b)
    /\ intent[b] = "encrypt"
    /\ Cardinality(EligibleAtStart(b)) = 3
    /\ 2 \in EligibleAtStart(b)
    /\ Len(DirOf(2)) > Len(folder[b]) + 1
    /\ pwh[b] = PwB
    /\ ext[2] = ENCRYPTED_FILE_EXTENSION_DEFAULT

\* The slot of the latest command and the slot of the command before it.
LatestSlot == ((invocations + 1) % 2) + 1
EarlierSlot == (invocations % 2) + 1

\* No file under the folder of b had an encrypted extension when b was invoked.
OnlyNotesAtStart(b) ==
  LET prefix == IF folder[b] = << >> THEN << >> ELSE folder[b] \o <<"/">>
  IN \A f \in Files :
       StartsWith(PathOf(f, atStart[b].ext[f]), prefix) =>
         atStart[b].ext[f] \notin ENCRYPTED_FILE_EXTENSIONS

\* An Encrypt folder batch on a folder of notes, directly followed by a
\* Decrypt folder batch on the same folder with the same password, no fault
\* having been injected.
RoundTrip(e, d) ==
  /\ invocations >= 2
  /\ faults = 0
  /\ Summarised(e) /\ intent[e] = "encrypt"
  /\ Summarised(d) /\ intent[d] = "decrypt"
  /\ folder[d] = folder[e]
  /\ pwh[d].password = pwh[e].password
  /\ OnlyNotesAtStart(e)

\* C12: Encrypt folder and then Decrypt folder on the same folder with the
\* same password brings every note back to its original path and text, and
\* both summaries report no failure.
C12_FolderRoundTrip ==
  LET e == EarlierSlot
      d == LatestSlot
  IN RoundTrip(e, d) =>
       /\ fail[e] = 0 /\ fail[d] = 0
       /\ ok[e] = Cardinality(EligibleAtStart(e))
       /\ ok[d] = ok[e]
       /\ FilesOf(d) = EligibleAtStart(e)
       /\ \A f \in EligibleAtStart(e) :
            /\ ext[f] = "md"
            /\ PathOf(f, ext[f]) = PathOf(f, atStart[e].ext[f])
            /\ content[f] = atStart[e].content[f]
            /\ atStart[d].content[f] # content[f]

\* A finished round trip over three notes.
C12_Witness ==
  /\ RoundTrip(EarlierSlot, LatestSlot)
  /\ Cardinality(EligibleAtStart(EarlierSlot)) = 3
  /\ ok[LatestSlot] = 3

\* The crypto or codec step of b raised for f (or decrypt returned null).
CryptoFailed(b, f) == \E j \in Calls(b, "crypto", f) : ~trace[b][j].ok

\* The text b read for f cannot be decoded, or does not open with the
\* password of b.
Undecryptable(b, f) ==
  /\ intent[b] = "decrypt"
  /\ Calls(b, "crypto", f) # {}
  /\ LET text == atStart[b].content[f]
     IN \/ ~CanDecode(text)
        \/ Decrypt(Decode(text), pwh[b].password).isNull

\* What the cache holds under a path: one entry, or none.
CacheEntry(c, p) == IF p \in DOMAIN c THEN <<c[p]>> ELSE << >>

\* The leaves showing f, in workspace order.
ViewsOf(ls, f) == SelectSeq(ls, LAMBDA l : l.file = f)

\* C13: a file whose crypto or codec step failed (encrypt raised, decode
\* raised on a malformed envelope, or decrypt returned null for a wrong
\* password) is counted as failed and is otherwise untouched: path, extension
\* and content are those at invocation, its views are neither detached nor
\* reopened, nothing is cached for it, and a null decrypt result is never
\* written.
C13_CryptoFailureTouchesNothing ==
  \A b \in Batches :
    LET failed == {f \in Files : CryptoFailed(b, f) \/ Undecryptable(b, f)}
    IN /\ fail[b] >= Cardinality(failed)
       /\ ok[b] <= Len(files[b]) - Cardinality(failed)
       /\ \A f \in failed :
            /\ CryptoFailed(b, f)
            /\ Cardinality(Calls(b, "crypto", f)) = 1
            /\ ext[f] = atStart[b].ext[f]
            /\ path(f) = PathOf(f, atStart[b].ext[f])
            /\ content[f] = atStart[b].content[f]
            /\ ViewsOf(leaves, f) = ViewsOf(atStart[b].leaves, f)
            /\ CacheEntry(cache, path(f)) = CacheEntry(atStart[b].cache, path(f))
            /\ \A op \in {"detach", "rename", "modify", "put", "reopen"} :
                 Calls(b, op, f) = {}

\* A decrypt batch that met a wrong password on a file open in views and a
\* malformed envelope on another file, and went on past both.
C13_Witness ==
  \E b \in Batches :
    /\ Summarised(b)
    /\ intent[b] = "decrypt"
    /\ \E f \in FilesOf(b) :
         /\ CryptoFailed(b, f)
         /\ CanDecode(content[f])
         /\ Decrypt(Decode(content[f]), pwh[b].password).isNull
         /\ \E j \in DOMAIN leaves : IsBound(leaves[j], f)
    /\ \E f \in FilesOf(b) : CryptoFailed(b, f) /\ ~CanDecode(content[f])

\* The rename of f by b succeeded and the write after it raised.
WriteFailedAfterRename(b, f) ==
  /\ \E j \in Calls(b, "rename", f) : trace[b][j].ok
  /\ \E j \in Calls(b, "modify", f) : ~trace[b][j].ok

\* C14: when the rename of a file succeeds and the write after it fails, the
\* file stays at its new path with its untransformed text, the rename is not
\* rolled back, nothing is cached for the file, the file is counted in fail
\* and not in ok, and the batch goes on to the next file.
C14_RenamedButStaleIsSurfaced ==
  \A b \in Batches :
    LET stale == {k \in DOMAIN files[b] : WriteFailedAfterRename(b, files[b][k])}
        over == {k \in stale : AtRest(b, k)}
        written == {k \in DOMAIN files[b] :
                      \E j \in Calls(b, "modify", files[b][k]) : trace[b][j].ok}
    IN /\ fail[b] >= Cardinality(over)
       /\ ok[b] <= Cardinality(written)
       /\ stale \cap written = {}
       /\ \A k \in stale :
            LET f == files[b][k]
            IN /\ RenamedButStale(b, f)
               /\ path(f) = getFilePathWithNewExtension(f, NewExtension(intent[b]))
               /\ Cardinality(Calls(b, "rename", f)) = 1
               /\ Cardinality(Calls(b, "modify", f)) = 1
               /\ Calls(b, "put", f) = {}
               /\ CacheEntry(cache, path(f)) = CacheEntry(atStart[b].cache, path(f))
               /\ (k \in over /\ k < Len(files[b])) =>
                    \/ pc[b] = "read" /\ idx[b] = k + 1
                    \/ Calls(b, "read", files[b][k + 1]) # {}

\* A summarised batch whose first file was left renamed but stale, after which
\* another file was read and fully transformed.
C14_Witness ==
  \E b \in Batches :
    /\ Summarised(b)
    /\ Len(files[b]) >= 2
    /\ WriteFailedAfterRename(b, files[b][1])
    /\ Calls(b, "reopen", files[b][1]) # {}
    /\ fail[b] = 1
    /\ \E k \in DOMAIN files[b] :
         /\ k > 1
         /\ FullyTransformed(b, files[b][k])
         /\ Calls(b, "put", files[b][k]) # {}

\* The position of f in the list of b.
Pos(b, f) == CHOOSE k \in DOMAIN files[b] : files[b][k] = f

\* Call number j of b ends the iteration of its file: it is a failed read or
\* crypto step, the openFile of the finally block, or, when no view was
\* detached, the putByFile or the failed rename or write.
IsFinalCall(b, j) ==
  LET last == trace[b][j]
  IN \/ last.op \in {"read", "crypto"} /\ ~last.ok
     \/ last.op = "reopen"
     \/ /\ Calls(b, "detach", last.file) = {}
        /\ \/ last.op = "put"
           \/ last.op \in {"rename", "modify"} /\ ~last.ok

\* The iteration of f has reached its final outcome.
Complete(b, f) ==
  LET mine == {j \in DOMAIN trace[b] : trace[b][j].file = f}
  IN /\ mine # {}
     /\ IsFinalCall(b, CHOOSE j \in mine : \A i \in mine : i <= j)

\* renameFile has been called for f and the write of f has not ended.
Midway(b, f) ==
  /\ \E j \in Calls(b, "crypto", f) : trace[b][j].ok
  /\ Calls(b, "modify", f) = {}
  /\ \A j \in Calls(b, "rename", f) : trace[b][j].ok

\* C15: a batch handles its files one after another in the order of the list:
\* the calls on a file start with its read and are consecutive, the call
\* before the read of a file is the final call of the file before it in the
\* list (its reopen included), so the calls on a file all come before those
\* on the next, and at most one file is between the start of its rename and
\* the end of its write.
C15_OneFileAtATime ==
  \A b \in Batches :
    LET t == trace[b]
        ops == {j \in DOMAIN t : t[j].file # 0}
        listed == FilesOf(b)
    IN /\ \A j \in ops :
            /\ t[j].file \in listed
            /\ IF t[j].op = "read"
                 THEN LET p == Pos(b, t[j].file)
                      IN IF p = 1
                           THEN j - 1 \notin ops
                           ELSE /\ j - 1 \in ops
                                /\ t[j - 1].file = files[b][p - 1]
                                /\ IsFinalCall(b, j - 1)
                                /\ ok[b] + fail[b] >= p - 1
                 ELSE /\ j - 1 \in ops
                      /\ t[j - 1].file = t[j].file
            /\ (j < Len(t) /\ j + 1 \notin ops) => t[j + 1].op = "notice"
       /\ LET midway == {f \in listed : Midway(b, f)}
          IN /\ Cardinality(midway) <= 1
             /\ \A f \in midway : Updating(b, f)

\* The third file of a batch is midway while the first, whose view was
\* detached and reopened, and the second are complete.
C15_Witness ==
  \E b \in Batches :
    /\ Len(files[b]) = 3
    /\ Midway(b, files[b][3])
    /\ Calls(b, "reopen", files[b][1]) # {}
    /\ Complete(b, files[b][1])
    /\ Complete(b, files[b][2])

\* The folders of two invocations overlap: one is the other or lies under it.
Overlapping(d1, d2) ==
  LET under(x, y) == y = << >> \/ x = y \/ StartsWith(x, y \o <<"/">>)
  IN under(d1, d2) \/ under(d2, d1)

\* The files a batch has read, renamed or written.
Handled(b) ==
  {f \in Files : \E op \in {"read", "rename", "modify"} : Calls(b, op, f) # {}}

\* The files a batch has renamed and rewritten.
TransformedBy(b) ==
  {f \in Files : /\ \E j \in Calls(b, "rename", f) : trace[b][j].ok
                 /\ \E j \in Calls(b, "modify", f) : trace[b][j].ok}

\* C16 as stated: when a command is invoked while an earlier batch on the
\* same or an overlapping folder is suspended, the two batches never both
\* read, rename or write the same file, and no file is transformed twice.
C16_BatchesNeverOverlap ==
  \A b \in Batches : \A c \in atStart[b].active :
    Overlapping(folder[b], folder[c]) =>
      /\ Handled(b) \cap Handled(c) = {}
      /\ TransformedBy(b) \cap TransformedBy(c) = {}

\* C17: a batch on a folder reads, renames, modifies, detaches views of and
\* caches passwords for no file other than those whose path starts with the
\* folder path and "/" (every file for the root) and whose extension is
\* eligible for the direction; every other file, a file of a sibling folder
\* whose name starts with the folder's name included, keeps its path,
\* content, views and cache entry.
C17_OnlyEligibleFilesTouched ==
  \A b \in Batches :
    LET eligible == EligibleAtStart(b)
    IN pc[b] # "idle" =>
         /\ \A j \in DOMAIN trace[b] :
              trace[b][j].file # 0 => trace[b][j].file \in eligible
         /\ \A f \in Files \ eligible :
              LET p == path(f)
              IN /\ ext[f] = atStart[b].ext[f]
                 /\ p = PathOf(f, atStart[b].ext[f])
                 /\ content[f] = atStart[b].content[f]
                 /\ ViewsOf(leaves, f) = ViewsOf(atStart[b].leaves, f)
                 /\ CacheEntry(cache, p) = CacheEntry(atStart[b].cache, p)

\* An encrypt batch on folder a has transformed the two notes under a, one of
\* them nested, while the note of the sibling folder ab is still a note.
C17_Witness ==
  \E b \in Batches :
    /\ Summarised(b)
    /\ intent[b] = "encrypt"
    /\ folder[b] = <<"a">>
    /\ ok[b] = 2
    /\ FullyTransformed(b, 1) /\ FullyTransformed(b, 2)
    /\ StartsWith(path(3), folder[b])
    /\ 3 \notin EligibleAtStart(b)
    /\ ext[3] = "md"

\* C18 as stated: the blank password never reaches the transform step: every
\* call of encryptFile, decryptFile and putByFile is made with a
\* PasswordAndHint whose password is not empty, at every session level and
\* for every result of the cache lookup.
C18_BlankPasswordNeverUsed ==
  \A b \in Batches : \A j \in DOMAIN trace[b] :
    trace[b][j].op \in {"read", "crypto", "put"} => trace[b][j].pwh.password # ""

\* The files of b that were renamed, rewritten and remembered.
DoneInFull(b) ==
  {f \in FilesOf(b) : /\ \E j \in Calls(b, "rename", f) : trace[b][j].ok
                      /\ \E j \in Calls(b, "modify", f) : trace[b][j].ok
                      /\ Calls(b, "put", f) # {}}

\* C19 as stated: in the summary, ok is the number of files that were fully
\* transformed (renamed, rewritten, password cached) and fail the number of
\* files that were not, whatever read, crypto, rename, write or reopen raised.
C19_CountsMatchOutcome ==
  \A b \in Batches :
    Summarised(b) =>
      /\ ok[b] = Cardinality(DoneInFull(b))
      /\ fail[b] = Cardinality(FilesOf(b) \ DoneInFull(b))

\* The text storage holds for f once the views of f that were open at the
\* invocation of b have been detached.
AfterDetach(b, f) == FlushInto(atStart[b].leaves, f, atStart[b].content[f])

\* C20 as stated: when the detach flushes pending text of a view to storage,
\* the content written after the rename is the transform of the text storage
\* holds after the detach, not of the text read before it.
C20_NoEditLostByDetach ==
  \A b \in Batches : \A f \in FilesOf(b) :
    ( /\ Calls(b, "detach", f) # {}
      /\ AfterDetach(b, f) # atStart[b].content[f]
      /\ \E j \in Calls(b, "modify", f) : trace[b][j].ok )
    => content[f] = Transform(b, AfterDetach(b, f))

====
